---- MODULE Spec2Model ----
(***************************************************************************)
(* Gift Genius AutoCheckout: a stateless HTTP layer in front of a hosted   *)
(* checkout provider.  Two revisions are modelled: src/app/main.py (the    *)
(* current revision, "app") and src/main.py (the older "V2" revision).     *)
(*                                                                         *)
(* Text is modelled as sequences.  A session id is a sequence of           *)
(* characters (one-character strings).  A URL is a sequence of tokens: a   *)
(* token is a delimiter ("?", "&", "=", "#"), a brace, a percent escape,   *)
(* or a word of characters that urllib neither splits on nor quotes.       *)
(***************************************************************************)
EXTENDS Integers, Sequences, FiniteSets, TLC

VARIABLES
    env,        \* process-wide configuration read at import time
    handler,    \* the operation that produced the current state
    request,    \* its input
    response,   \* its result
    calls       \* the provider calls made while handling the request

vars == <<env, handler, request, response, calls>>

\* Optional[...] values: None, or a present value.
None == [present |-> FALSE, v |-> <<>>]
Some(x) == [present |-> TRUE, v |-> x]
NoneInt == [present |-> FALSE, v |-> 0]

----------------------------------------------------------------------------
(* Session-id format guard                                                 *)

\* {24,} in SESSION_ID_RE
MinBodyLen == 24

\* longest id body the inputs hold
MaxBodyLen == 25

Upper == {"A","B","C","D","E","F","G","H","I","J","K","L","M",
          "N","O","P","Q","R","S","T","U","V","W","X","Y","Z"}
Lower == {"a","b","c","d","e","f","g","h","i","j","k","l","m",
          "n","o","p","q","r","s","t","u","v","w","x","y","z"}
Digit == {"0","1","2","3","4","5","6","7","8","9"}

\* the character class [A-Za-z0-9]
Alnum == Upper \cup Lower \cup Digit

cs_test_ == <<"c","s","_","t","e","s","t","_">>
cs_live_ == <<"c","s","_","l","i","v","e","_">>

StartsWith(s, p) ==
    /\ Len(s) >= Len(p)
    /\ \A i \in 1..Len(p) : s[i] = p[i]

\* Python's "$" without re.MULTILINE: the end of the string, or the place
\* just before a newline that is the string's last character.
AtDollar(s, pos) ==
    \/ pos = Len(s)
    \/ pos = Len(s) - 1 /\ s[Len(s)] = "\n"

\* bool(SESSION_ID_RE.match(s)) for r"^cs_(test|live)_[A-Za-z0-9]{24,}$"
SESSION_ID_RE_match(s) ==
    \E p \in {cs_test_, cs_live_} :
        /\ StartsWith(s, p)
        /\ \E k \in MinBodyLen..(Len(s) - Len(p)) :
              /\ \A i \in 1..k : s[Len(p) + i] \in Alnum
              /\ AtDollar(s, Len(p) + k)

----------------------------------------------------------------------------
(* Identifier inputs                                                       *)

Fill(c, n) == [i \in 1..n |-> c]

\* a body of n characters c, with the character at position bad (0: none)
\* replaced by b
BodyWith(c, n, bad, b) == [i \in 1..n |-> IF i = bad THEN b ELSE c]

BodyLens == {0, 1, MinBodyLen - 1, MinBodyLen, MaxBodyLen}
FillChars == {"a", "Z", "7"}
BadChars == {"{", "}", "\n", "-", "_"}
Prefixes == {cs_test_, cs_live_,
             <<"C","S","_","T","E","S","T","_">>,
             <<"c","s","_","T","e","s","t","_">>,
             <<"c","s","_","p","r","o","d","_">>,
             <<>>}
Suffixes == {<<>>, <<"\n">>, <<"\n","\n">>, <<"}">>}

Bodies ==
    {Fill(c, n) : c \in FillChars, n \in BodyLens}
    \cup {BodyWith("a", n, pos, b) :
            n \in BodyLens \ {0}, pos \in {1, MinBodyLen}, b \in BadChars}

CHECKOUT_SESSION_ID ==
    <<"C","H","E","C","K","O","U","T","_","S","E","S","S","I","O","N","_","I","D">>

Placeholder == <<"{">> \o CHECKOUT_SESSION_ID \o <<"}">>

StructuredIds == {p \o b \o s : p \in Prefixes, b \in Bodies, s \in Suffixes}

\* every non-empty identifier a request can carry
IdInputs ==
    (StructuredIds \ {<<>>})
    \cup {Placeholder, CHECKOUT_SESSION_ID,
          <<"x">> \o CHECKOUT_SESSION_ID, <<"a","b","c">>}

----------------------------------------------------------------------------
(* The validator applied to one identifier                                 *)

InitValidator ==
    /\ env = [STRIPE_WEBHOOK_SECRET |-> <<>>, SERVICE_FEE_CENTS |-> 99]
    /\ handler = "SESSION_ID_RE"
    /\ request \in {[session_id |-> s] : s \in IdInputs \cup {<<>>}}
    /\ response = [done |-> FALSE, accepted |-> FALSE]
    /\ calls = <<>>

ApplyValidator ==
    /\ handler = "SESSION_ID_RE"
    /\ ~response.done
    /\ response' = [done |-> TRUE,
                    accepted |-> SESSION_ID_RE_match(request.session_id)]
    /\ UNCHANGED <<env, handler, request, calls>>

SpecValidator == InitValidator /\ [][ApplyValidator]_vars

\* the session-id pattern: the whole identifier is cs_test_ or cs_live_
\* followed by 24 or more ASCII letters or digits
WholeIdPattern(s) ==
    \E p \in {cs_test_, cs_live_} :
        /\ StartsWith(s, p)
        /\ Len(s) - Len(p) >= MinBodyLen
        /\ \A i \in (Len(p) + 1)..Len(s) : s[i] \in Alnum

\* C2: the validator accepts an identifier exactly when the whole identifier
\* is cs_test_ or cs_live_ followed by 24 or more ASCII letters or digits;
\* every other string (empty, short body, wrong-case prefix, a control or
\* brace character anywhere, such as a trailing newline) is rejected.
C2_ValidatorAcceptsExactlyPattern ==
    (handler = "SESSION_ID_RE" /\ response.done)
        => (response.accepted <=> WholeIdPattern(request.session_id))

----------------------------------------------------------------------------
(* URL Composer: urllib.parse on token sequences                           *)

\* most query fields of an input URL
MaxQueryFields == 2

\* position of the first d in s, 0 when there is none
IndexOf(s, d) ==
    IF \E i \in 1..Len(s) : s[i] = d
    THEN CHOOSE i \in 1..Len(s) : s[i] = d /\ \A j \in 1..(i - 1) : s[j] # d
    ELSE 0

\* s.split(d)
RECURSIVE Split(_, _)
Split(s, d) ==
    LET i == IndexOf(s, d)
    IN  IF i = 0 THEN <<s>>
        ELSE <<SubSeq(s, 1, i - 1)>> \o Split(SubSeq(s, i + 1, Len(s)), d)

\* d.join(parts)
RECURSIVE Join(_, _)
Join(parts, d) ==
    IF parts = <<>> THEN <<>>
    ELSE IF Len(parts) = 1 THEN parts[1]
    ELSE parts[1] \o <<d>> \o Join(Tail(parts), d)

\* urlparse(url): the fragment is cut at the first "#", then the query at
\* the first "?"; scheme, host and path stay in one word, base.
urlparse(url) ==
    LET h == IndexOf(url, "#")
        nofrag == IF h = 0 THEN url ELSE SubSeq(url, 1, h - 1)
        frag == IF h = 0 THEN <<>> ELSE SubSeq(url, h + 1, Len(url))
        q == IndexOf(nofrag, "?")
    IN  [base |-> IF q = 0 THEN nofrag ELSE SubSeq(nofrag, 1, q - 1),
         query |-> IF q = 0 THEN <<>> ELSE SubSeq(nofrag, q + 1, Len(nofrag)),
         fragment |-> frag]

\* urlunparse: "?" and "#" are written only before a non-empty part
urlunparse(u) ==
    u.base
    \o (IF u.query = <<>> THEN <<>> ELSE <<"?">> \o u.query)
    \o (IF u.fragment = <<>> THEN <<>> ELSE <<"#">> \o u.fragment)

\* unquote of one token, after "+" became a space
UnquoteTok(t) ==
    CASE t = "%7B" -> "{"
      [] t = "%7D" -> "}"
      [] t = "%3F" -> "?"
      [] t = "%3D" -> "="
      [] t = "%26" -> "&"
      [] t = "%23" -> "#"
      [] t = "+"   -> " "
      [] OTHER     -> t

\* quote_plus of one token
QuoteTok(t) ==
    CASE t = "{" -> "%7B"
      [] t = "}" -> "%7D"
      [] t = "?" -> "%3F"
      [] t = "=" -> "%3D"
      [] t = "&" -> "%26"
      [] t = "#" -> "%23"
      [] t = " " -> "+"
      [] t = "+" -> "%2B"
      [] OTHER   -> t

unquote(s) == [i \in 1..Len(s) |-> UnquoteTok(s[i])]
quote_plus(s) == [i \in 1..Len(s) |-> QuoteTok(s[i])]

\* parse_qsl(qs, keep_blank_values): the (name, value) pairs of the fields
\* "name=value"; empty fields and fields without "=" are skipped, and so are
\* fields with an empty value unless keep_blank_values.
RECURSIVE PairsOf(_, _)
PairsOf(fields, keep_blank_values) ==
    IF fields = <<>> THEN <<>>
    ELSE LET f == fields[1]
             e == IndexOf(f, "=")
             name == SubSeq(f, 1, e - 1)
             value == SubSeq(f, e + 1, Len(f))
             rest == PairsOf(Tail(fields), keep_blank_values)
         IN  IF f = <<>> THEN rest
             ELSE IF e = 0 THEN rest
             ELSE IF value # <<>> \/ keep_blank_values
                  THEN <<[k |-> unquote(name), v |-> unquote(value)]>> \o rest
                  ELSE rest

parse_qsl(qs) == PairsOf(Split(qs, "&"), FALSE)

HasKey(d, k) == \E i \in 1..Len(d) : d[i].k = k

\* d[k] = v on an insertion-ordered dict: an existing key keeps its place
DictSet(d, k, v) ==
    IF HasKey(d, k)
    THEN [i \in 1..Len(d) |-> IF d[i].k = k THEN [k |-> k, v |-> v] ELSE d[i]]
    ELSE Append(d, [k |-> k, v |-> v])

\* dict(pairs)
RECURSIVE DictFrom(_, _)
DictFrom(d, pairs) ==
    IF pairs = <<>> THEN d
    ELSE DictFrom(DictSet(d, pairs[1].k, pairs[1].v), Tail(pairs))

\* for k, v in params.items(): if v is not None: q[k] = v
RECURSIVE SetParams(_, _)
SetParams(q, params) ==
    IF params = <<>> THEN q
    ELSE SetParams(IF params[1].v.present
                   THEN DictSet(q, params[1].k, params[1].v.v)
                   ELSE q,
                   Tail(params))

\* urlencode(q)
urlencode(q) ==
    Join([i \in 1..Len(q) |-> quote_plus(q[i].k) \o <<"=">> \o quote_plus(q[i].v)],
         "&")

\* add_params(url, **params)
add_params(url, params) ==
    LET u == urlparse(url)
        q == SetParams(DictFrom(<<>>, parse_qsl(u.query)), params)
    IN  urlunparse([u EXCEPT !.query = urlencode(q)])

----------------------------------------------------------------------------
(* URL inputs                                                              *)

Base == <<"https://x.com/a">>

QueryFields ==
    {<<"b", "=", "1">>, <<"b", "=", "2">>, <<"b", "=">>, <<"b">>,
     <<"status", "=", "old">>, <<"c", "=", "%7B", "x", "%7D">>}

RECURSIVE FieldSeqs(_)
FieldSeqs(n) ==
    IF n = 0 THEN {<<>>}
    ELSE FieldSeqs(n - 1)
         \cup {Append(fs, f) : fs \in {x \in FieldSeqs(n - 1) : Len(x) = n - 1},
                               f \in QueryFields}

\* base URLs: no query, an empty query ("?"), or up to MaxQueryFields
\* fields; with and without a fragment
UrlInputs ==
    {Base \o q \o h :
        q \in {<<>>} \cup {<<"?">> \o Join(fs, "&") : fs \in FieldSeqs(MaxQueryFields)},
        h \in {<<>>, <<"#", "top">>}}

\* keyword arguments, in call order
ParamInputs ==
    {<<[k |-> <<"status">>, v |-> Some(<<"cancel">>)]>>,
     <<[k |-> <<"status">>, v |-> None]>>,
     <<[k |-> <<"session_id">>, v |-> Some(<<"{", "CHECKOUT_SESSION_ID", "}">>)],
       [k |-> <<"status">>, v |-> Some(<<"success">>)]>>,
     <<[k |-> <<"b">>, v |-> Some(<<"9">>)],
       [k |-> <<"c">>, v |-> None]>>}

InitComposer ==
    /\ env = [STRIPE_WEBHOOK_SECRET |-> <<>>, SERVICE_FEE_CENTS |-> 99]
    /\ handler = "add_params"
    /\ request \in {[url |-> u, params |-> ps] : u \in UrlInputs, ps \in ParamInputs}
    /\ response = [done |-> FALSE, url |-> <<>>]
    /\ calls = <<>>

ApplyComposer ==
    /\ handler = "add_params"
    /\ ~response.done
    /\ response' = [done |-> TRUE, url |-> add_params(request.url, request.params)]
    /\ UNCHANGED <<env, handler, request, calls>>

SpecComposer == InitComposer /\ [][ApplyComposer]_vars

\* every name/value pair of a URL's query, empty values included
AllPairs(url) == PairsOf(Split(urlparse(url).query, "&"), TRUE)

\* the values a URL's query gives to a name, in order
RECURSIVE ValuesIn(_, _)
ValuesIn(pairs, name) ==
    IF pairs = <<>> THEN <<>>
    ELSE (IF pairs[1].k = name THEN <<pairs[1].v>> ELSE <<>>)
         \o ValuesIn(Tail(pairs), name)

ValuesOf(url, name) == ValuesIn(AllPairs(url), name)

NamesOf(url) == {AllPairs(url)[i].k : i \in 1..Len(AllPairs(url))}

IsSet(params, name) == \E i \in 1..Len(params) : params[i].k = name /\ params[i].v.present

\* C5: add_params keeps scheme, host and path; keeps every pre-existing
\* name/value pair whose name the mapping does not set (repeated names and
\* empty values included); holds exactly one entry, with the new value, for
\* each name mapped to a non-absent value; and names mapped to an absent
\* value are not added and leave existing entries unchanged.
C5_AddParamsMergesAndPreserves ==
    (handler = "add_params" /\ response.done) =>
        LET in == request.url
            out == response.url
            ps == request.params
        IN  /\ urlparse(out).base = urlparse(in).base
            /\ \A n \in NamesOf(in) \cup NamesOf(out) \cup {ps[i].k : i \in 1..Len(ps)} :
                  IF IsSet(ps, n)
                  THEN \E i \in 1..Len(ps) :
                          ps[i].k = n /\ ValuesOf(out, n) = <<ps[i].v.v>>
                  ELSE ValuesOf(out, n) = ValuesOf(in, n)

----------------------------------------------------------------------------
(* Process-wide configuration                                              *)

\* SERVICE_FEE_CENTS when the environment does not set it
DefaultFeeCents == 99

DEFAULT_SUCCESS_URL == <<"https://gift-genius-autocheckout.onrender.com/thanks">>
DEFAULT_CANCEL_URL == <<"https://gift-genius-autocheckout.onrender.com/cancel">>
V2_DEFAULT_URL == <<"https://chat.openai.com/">>

\* str.strip(): leading and trailing blanks removed
RECURSIVE strip(_)
strip(s) ==
    IF s = <<>> THEN s
    ELSE IF Head(s) = " " THEN strip(Tail(s))
    ELSE IF s[Len(s)] = " " THEN strip(SubSeq(s, 1, Len(s) - 1))
    ELSE s

\* values of the STRIPE_WEBHOOK_SECRET environment variable
SecretEnvInputs == {<<>>, <<" ">>, <<"whsec_1">>, <<"whsec_1", " ">>}

EnvInputs ==
    {[STRIPE_WEBHOOK_SECRET |-> strip(raw), SERVICE_FEE_CENTS |-> fee] :
        raw \in SecretEnvInputs, fee \in {DefaultFeeCents, 0}}

----------------------------------------------------------------------------
(* Create Checkout                                                         *)

\* largest quantity of a request
MaxQuantity == 3

\* round() of the exact quotient num / den: halves go to the even integer
RoundHalfEven(num, den) ==
    LET q == num \div den
        r == num % den
    IN  IF 2 * r < den THEN q
        ELSE IF 2 * r > den THEN q + 1
        ELSE IF q % 2 = 0 THEN q ELSE q + 1

\* int(round(product_price * 100)) for a price of e eighths: such a price
\* and its product with 100 are exact binary floating-point numbers
unit_amount_of(e) == RoundHalfEven(e * 100, 8)

\* prices in eighths: 0.125, 0.375, 0.625, 35.00; and the float infinity,
\* which passes gt=0 and makes round() raise
PriceInputs ==
    {[finite |-> TRUE, eighths |-> e] : e \in {1, 3, 5, 280}}
    \cup {[finite |-> FALSE, eighths |-> 0]}

FeeInputs == {NoneInt} \cup {[present |-> TRUE, v |-> f] : f \in {-1, 0, 150}}

CheckoutUrlInputs ==
    {None, Some(<<>>), Some(Base), Some(Base \o <<"?", "b", "=", "1">>),
     Some(Base \o <<"?", "b", "=">>),
     Some(Base \o <<"?", "b", "=", "1", "&", "b", "=", "2">>),
     Some(Base \o <<"#", "top">>)}

CheckoutBodies ==
    [product_price : PriceInputs,
     quantity : 1..MaxQuantity,
     service_fee_cents : FeeInputs,
     success_url : CheckoutUrlInputs,
     cancel_url : CheckoutUrlInputs]

\* what stripe.checkout.Session.create can do
CreateOutcomes == {"session", "session without url", "StripeError"}

NewSessionId == cs_test_ \o Fill("a", MinBodyLen)

HostedUrl == <<"https://checkout.stripe.com/c/pay/cs_test_a", "#", "fid">>

SessionFor(outcome) ==
    [id |-> NewSessionId,
     url |-> IF outcome = "session" THEN Some(HostedUrl) ELSE None]

HTTPException(status, detail) == [status |-> status, detail |-> detail]

\* body.x or DEFAULT: None and the empty string fall back to the default
OrDefault(opt, default) == IF opt.present /\ opt.v # <<>> THEN opt.v ELSE default

\* faulty variant: the guard off by one, letting -1 through
fee_rejected_drop(service_fee_cents) ==
    service_fee_cents.present /\ service_fee_cents.v < -1

\* if body.service_fee_cents is not None and body.service_fee_cents < 0
fee_rejected(service_fee_cents) ==
    service_fee_cents.present /\ service_fee_cents.v < 0

\* faulty variant: the quantity forgotten
products_total_drop(unit_amount, quantity) == unit_amount

\* products_total = unit_amount * body.quantity
products_total(unit_amount, quantity) == unit_amount * quantity

CreateCall(unit_amount, quantity, fee_cents, success_url, cancel_url, outcome) ==
    [op |-> "checkout.Session.create",
     line_items |-> <<[unit_amount |-> unit_amount, quantity |-> quantity],
                      [unit_amount |-> fee_cents, quantity |-> 1]>>,
     success_url |-> success_url,
     cancel_url |-> cancel_url,
     outcome |-> outcome]

\* POST /create_checkout, src/app/main.py
create_checkout ==
    /\ handler = "idle"
    /\ \E body \in CheckoutBodies, outcome \in CreateOutcomes :
        LET unit_amount == unit_amount_of(body.product_price.eighths)
            fee_cents == IF body.service_fee_cents.present
                         THEN body.service_fee_cents.v
                         ELSE env.SERVICE_FEE_CENTS
            total == products_total(unit_amount, body.quantity)
            success_base == OrDefault(body.success_url, DEFAULT_SUCCESS_URL)
            cancel_base == OrDefault(body.cancel_url, DEFAULT_CANCEL_URL)
            success_url ==
                add_params(success_base,
                    <<[k |-> <<"session_id">>,
                       v |-> Some(<<"{", "CHECKOUT_SESSION_ID", "}">>)],
                      [k |-> <<"status">>, v |-> Some(<<"success">>)]>>)
            cancel_url ==
                add_params(cancel_base,
                    <<[k |-> <<"status">>, v |-> Some(<<"cancel">>)]>>)
            session == SessionFor(outcome)
        IN  /\ handler' = "create_checkout"
            /\ request' = body
            /\ IF ~body.product_price.finite
               THEN /\ response' = HTTPException(400, "Invalid product_price format")
                    /\ calls' = <<>>
               ELSE IF fee_rejected(body.service_fee_cents)
               THEN /\ response' = HTTPException(400, "service_fee_cents must be >= 0")
                    /\ calls' = <<>>
               ELSE /\ calls' = <<CreateCall(unit_amount, body.quantity, fee_cents,
                                             success_url, cancel_url, outcome)>>
                    /\ response' =
                         IF outcome = "StripeError"
                         THEN HTTPException(400, "Stripe error")
                         ELSE IF ~session.url.present
                         THEN HTTPException(500, "Stripe did not return a checkout URL")
                         ELSE [status |-> 200,
                               checkout_url |-> session.url,
                               redirect_id |-> session.id,
                               amount_product_cents |-> total,
                               amount_service_fee_cents |-> fee_cents,
                               amount_total_cents |-> total + fee_cents]
            /\ UNCHANGED env

\* POST /create_checkout, src/main.py
create_checkout_v2 ==
    /\ handler = "idle"
    /\ \E body \in CheckoutBodies, outcome \in CreateOutcomes :
        LET product_amount_cents == unit_amount_of(body.product_price.eighths)
            fee_cents == IF body.service_fee_cents.present
                         THEN body.service_fee_cents.v
                         ELSE env.SERVICE_FEE_CENTS
            \* an omitted field takes the model's default; "" is a value
            success_base == IF body.success_url.present
                            THEN body.success_url.v ELSE V2_DEFAULT_URL
            cancel_base == IF body.cancel_url.present
                           THEN body.cancel_url.v ELSE V2_DEFAULT_URL
            session == SessionFor(outcome)
            total_cents == product_amount_cents * body.quantity + fee_cents
        IN  /\ handler' = "create_checkout_v2"
            /\ request' = body
            /\ IF ~body.product_price.finite
               THEN /\ response' = HTTPException(400, "Invalid product_price format")
                    /\ calls' = <<>>
               ELSE IF fee_cents < 0
               THEN /\ response' = HTTPException(400, "service_fee_cents must be >= 0")
                    /\ calls' = <<>>
               ELSE /\ calls' =
                         <<CreateCall(product_amount_cents, body.quantity, fee_cents,
                              success_base \o <<"?", "status", "=", "success">>,
                              cancel_base \o <<"?", "status", "=", "cancel">>,
                              outcome)>>
                    /\ response' =
                         IF outcome = "StripeError"
                         THEN HTTPException(400, "Stripe error")
                         ELSE [status |-> 200,
                               checkout_url |-> session.url,
                               redirect_id |-> <<>>,
                               amount_product_cents |-> product_amount_cents * body.quantity,
                               amount_service_fee_cents |-> fee_cents,
                               amount_total_cents |-> total_cents]
            /\ UNCHANGED env

----------------------------------------------------------------------------
(* Safe Redirect                                                           *)

\* what stripe.checkout.Session.retrieve can do for GET /r/{session_id}
RetrieveOutcomes == {"session", "session without url", "StripeError"}

RetrieveCall(session_id, outcome) ==
    [op |-> "checkout.Session.retrieve", id |-> session_id, outcome |-> outcome]

\* GET /r/{session_id}: a path segment is never empty
redirect_to_stripe ==
    /\ handler = "idle"
    /\ \E session_id \in IdInputs, outcome \in RetrieveOutcomes :
        /\ handler' = "redirect_to_stripe"
        /\ request' = [session_id |-> session_id]
        /\ IF ~SESSION_ID_RE_match(session_id)
           THEN /\ response' = HTTPException(400, "Invalid checkout session id format.")
                /\ calls' = <<>>
           ELSE /\ calls' = <<RetrieveCall(session_id, outcome)>>
                /\ response' =
                     IF outcome = "StripeError"
                     THEN HTTPException(400, "Stripe error")
                     ELSE IF outcome = "session without url"
                     THEN HTTPException(404, "Checkout session has no URL")
                     ELSE [status |-> 302, location |-> HostedUrl]
        /\ UNCHANGED env

----------------------------------------------------------------------------
(* Thank-you page                                                          *)

\* sub in s
Contains(s, sub) ==
    \E i \in 0..(Len(s) - Len(sub)) : \A j \in 1..Len(sub) : s[i + j] = sub[j]

\* faulty variant: the guard without the test for the placeholder name
invalid_drop(session_id) ==
    \/ ~session_id.present
    \/ session_id.v = <<>>
    \/ Contains(session_id.v, <<"{">>)
    \/ Contains(session_id.v, <<"}">>)

\* the placeholder guard of thanks(); session_id is Optional[str]
invalid(session_id) ==
    \/ ~session_id.present
    \/ session_id.v = <<>>
    \/ Contains(session_id.v, CHECKOUT_SESSION_ID)
    \/ Contains(session_id.v, <<"{">>)
    \/ Contains(session_id.v, <<"}">>)

\* html.escape of one token
EscapeTok(t) ==
    CASE t = "&" -> "&amp;"
      [] t = "<" -> "&lt;"
      [] t = ">" -> "&gt;"
      [] OTHER   -> t

html_escape(s) == [i \in 1..Len(s) |-> EscapeTok(s[i])]

\* the fields thanks() reads from a retrieved session; amounts in cents
SessionDetails ==
    [amount_total : {NoneInt, [present |-> TRUE, v |-> 0], [present |-> TRUE, v |-> 3599]},
     email : {None, Some(<<"a@b.c">>), Some(<<"<", "b", ">">>)},
     line_items : {<<>>,
                   <<[description |-> Some(<<"Mug">>), quantity |-> 1, unit_amount |-> 3500],
                     [description |-> None, quantity |-> 1, unit_amount |-> 99]>>}]

\* where the best-effort fetch can fail: in retrieve itself (a provider
\* error or any other error), or later while the line items are read
ThanksFaults == {"none", "StripeError", "other error", "line item error"}

GenericPage == [status |-> 200, email |-> None, items |-> <<>>, total |-> NoneInt]

Row(li) ==
    [name |-> html_escape(IF li.description.present /\ li.description.v # <<>>
                          THEN li.description.v ELSE <<"Item">>),
     qty |-> li.quantity,
     unit |-> li.unit_amount]

\* the page thanks() renders from the values it has collected
Page(amount_total, email, rows) ==
    [status |-> 200,
     email |-> IF email.present /\ email.v # <<>> THEN Some(html_escape(email.v)) ELSE None,
     items |-> rows,
     total |-> IF amount_total # 0 THEN [present |-> TRUE, v |-> amount_total]
               ELSE NoneInt]

ThanksIdInputs == {None, Some(<<>>)} \cup {Some(s) : s \in IdInputs}

\* GET /thanks
thanks ==
    /\ handler = "idle"
    /\ \E session_id \in ThanksIdInputs, sess \in SessionDetails, fault \in ThanksFaults :
        /\ handler' = "thanks"
        /\ request' = [session_id |-> session_id]
        /\ IF invalid(session_id)
           THEN /\ calls' = <<>>
                /\ response' = Page(0, None, <<>>)
           ELSE /\ calls' = <<RetrieveCall(session_id.v, fault)>>
                /\ response' =
                     IF fault \in {"StripeError", "other error"}
                     THEN Page(0, None, <<>>)
                     ELSE LET amount_total == IF sess.amount_total.present
                                              THEN sess.amount_total.v ELSE 0
                              rows == [i \in 1..Len(sess.line_items) |->
                                          Row(sess.line_items[i])]
                          IN  Page(amount_total, sess.email,
                                   IF fault = "line item error" THEN <<>> ELSE rows)
        /\ UNCHANGED env

----------------------------------------------------------------------------
(* Webhook                                                                 *)

\* the Stripe-Signature of a body under a key; fresh: its timestamp is
\* within the library's tolerance
Sign(key, body, fresh) == [key |-> key, body |-> body, fresh |-> fresh]

WebhookPayloads ==
    {[json |-> TRUE, type |-> "checkout.session.completed"],
     [json |-> TRUE, type |-> "payment_intent.succeeded"],
     [json |-> FALSE, type |-> ""]}

WebhookKeys == {<<>>, <<"whsec_1">>, <<"whsec_other">>}

\* headers: the "" default of a missing header, and signatures of this or
\* another body under the configured or another key
SignatureHeaders ==
    {Sign(<<>>, [json |-> FALSE, type |-> ""], FALSE)}
    \cup {Sign(k, b, f) : k \in WebhookKeys \ {<<>>}, b \in WebhookPayloads, f \in BOOLEAN}

\* stripe.Webhook.construct_event(payload, sig_header, secret) returns an
\* event; otherwise it raises
construct_event_ok(payload, sig_header, secret) ==
    /\ sig_header = Sign(secret, payload, TRUE)
    /\ payload.json

\* faulty variant: a failed verification acknowledged all the same
webhook_reply_swallow(verified) == [status |-> 200, received |-> TRUE, warning |-> FALSE]

\* the reply of stripe_webhook once construct_event returned or raised
webhook_reply(verified) ==
    IF verified
    THEN [status |-> 200, received |-> TRUE, warning |-> FALSE]
    ELSE [status |-> 400, received |-> FALSE, warning |-> FALSE]

WebhookBody(name) ==
    /\ handler = "idle"
    /\ \E payload \in WebhookPayloads, sig_header \in SignatureHeaders :
        /\ handler' = name
        /\ request' = [payload |-> payload, sig_header |-> sig_header]
        /\ IF env.STRIPE_WEBHOOK_SECRET = <<>>
           THEN /\ calls' = <<>>
                /\ response' = [status |-> 200, received |-> TRUE, warning |-> TRUE]
           ELSE LET ok == construct_event_ok(payload, sig_header,
                                             env.STRIPE_WEBHOOK_SECRET)
                IN  /\ calls' = <<[op |-> "Webhook.construct_event", verified |-> ok]>>
                    /\ response' = webhook_reply(ok)
        /\ UNCHANGED env

\* POST /webhook, src/app/main.py
stripe_webhook == WebhookBody("stripe_webhook")

\* POST /webhook, src/main.py
stripe_webhook_v2 == WebhookBody("stripe_webhook_v2")

----------------------------------------------------------------------------
(* The service: requests share no state, so one request at a time is      *)
(* followed from its arrival to the delivery of its response.              *)

Init ==
    /\ env \in EnvInputs
    /\ handler = "idle"
    /\ request = [none |-> TRUE]
    /\ response = [status |-> 0]
    /\ calls = <<>>

\* the framework sends the handler's result; nothing of the request is kept
send_response ==
    /\ handler # "idle"
    /\ handler' = "idle"
    /\ request' = [none |-> TRUE]
    /\ response' = [status |-> 0]
    /\ calls' = <<>>
    /\ UNCHANGED env

Next ==
    \/ create_checkout
    \/ create_checkout_v2
    \/ redirect_to_stripe
    \/ thanks
    \/ stripe_webhook
    \/ stripe_webhook_v2
    \/ send_response

Spec == Init /\ [][Next]_vars

----------------------------------------------------------------------------
(* Properties                                                              *)

IsCreate == handler \in {"create_checkout", "create_checkout_v2"}
IsWebhook == handler \in {"stripe_webhook", "stripe_webhook_v2"}

\* C1: GET /r/{session_id} with a session_id that does not match the
\* session-id pattern is answered 400 and makes no provider call.
C1_RedirectRejectsNonPattern ==
    (handler = "redirect_to_stripe" /\ ~WholeIdPattern(request.session_id))
        => (response.status = 400 /\ calls = <<>>)

\* C3: a create_checkout request with a negative service_fee_cents override
\* is answered 400 and no session-creation call is made, in both revisions.
C3_NegativeFeeRejected ==
    (IsCreate /\ request.service_fee_cents.present /\ request.service_fee_cents.v < 0)
        => (response.status = 400 /\ calls = <<>>)

C3_Witness ==
    /\ handler = "create_checkout"
    /\ request.product_price.finite
    /\ request.service_fee_cents = [present |-> TRUE, v |-> -1]
    /\ response.status = 400
    /\ calls = <<>>

\* C4: a successful create_checkout reports amount_product_cents =
\* unit_amount * quantity, amount_service_fee_cents = the resolved fee and
\* amount_total_cents = their sum, where unit_amount is the integer nearest
\* to price * 100; the total equals the sum of unit_amount * quantity over
\* the two line items sent to the provider; price 35.00, quantity 1 and the
\* default fee 99 give 3500, 99 and 3599.
C4_AmountsAgree ==
    (IsCreate /\ response.status = 200) =>
        /\ Len(calls) = 1
        /\ LET items == calls[1].line_items
               u == items[1].unit_amount
               fee == IF request.service_fee_cents.present
                      THEN request.service_fee_cents.v
                      ELSE env.SERVICE_FEE_CENTS
           IN  /\ 8 * u - 100 * request.product_price.eighths \in -4..4
               /\ items[1].quantity = request.quantity
               /\ response.amount_product_cents = u * request.quantity
               /\ response.amount_service_fee_cents = fee
               /\ response.amount_total_cents
                    = response.amount_product_cents + response.amount_service_fee_cents
               /\ response.amount_total_cents
                    = items[1].unit_amount * items[1].quantity
                      + items[2].unit_amount * items[2].quantity
               /\ (/\ request.product_price.eighths = 280
                   /\ request.quantity = 1
                   /\ ~request.service_fee_cents.present
                   /\ env.SERVICE_FEE_CENTS = DefaultFeeCents)
                  => /\ response.amount_product_cents = 3500
                     /\ response.amount_service_fee_cents = 99
                     /\ response.amount_total_cents = 3599

C4_Witness ==
    /\ handler = "create_checkout"
    /\ response.status = 200
    /\ request.product_price.eighths = 5
    /\ request.quantity = MaxQuantity
    /\ request.service_fee_cents = [present |-> TRUE, v |-> 150]
    /\ response.amount_total_cents = 62 * MaxQuantity + 150

\* the field "name=value", as it is written in the query of url
HasRawField(url, field) ==
    \E i \in 1..Len(Split(urlparse(url).query, "&")) :
        Split(urlparse(url).query, "&")[i] = field

\* the success and cancel base URLs a request resolves to
ResolvedBase(opt, default) == IF opt.present /\ opt.v # <<>> THEN opt.v ELSE default

\* C6: a create_checkout request that reaches the provider passes a success
\* URL that is the resolved success base URL with its query parameters
\* preserved, plus session_id={CHECKOUT_SESSION_ID} with the braces intact
\* and status=success; and a cancel URL that is the resolved cancel base URL
\* with its query parameters preserved plus only status=cancel.
C6_RedirectUrlsComposed ==
    (IsCreate /\ calls # <<>>) =>
        LET v2 == handler = "create_checkout_v2"
            sbase == ResolvedBase(request.success_url,
                                  IF v2 THEN V2_DEFAULT_URL ELSE DEFAULT_SUCCESS_URL)
            cbase == ResolvedBase(request.cancel_url,
                                  IF v2 THEN V2_DEFAULT_URL ELSE DEFAULT_CANCEL_URL)
            s == calls[1].success_url
            c == calls[1].cancel_url
        IN  /\ urlparse(s).base = urlparse(sbase).base
            /\ \A n \in NamesOf(sbase) \ {<<"session_id">>, <<"status">>} :
                  ValuesOf(s, n) = ValuesOf(sbase, n)
            /\ HasRawField(s, <<"session_id", "=", "{", "CHECKOUT_SESSION_ID", "}">>)
            /\ ValuesOf(s, <<"status">>) = <<(<<"success">>)>>
            /\ urlparse(c).base = urlparse(cbase).base
            /\ \A n \in NamesOf(cbase) \ {<<"status">>} :
                  ValuesOf(c, n) = ValuesOf(cbase, n)
            /\ ValuesOf(c, <<"status">>) = <<(<<"cancel">>)>>
            /\ NamesOf(c) \subseteq NamesOf(cbase) \cup {<<"status">>}

\* a session_id that is missing, empty, or structurally a placeholder
MissingOrPlaceholder(session_id) ==
    \/ ~session_id.present
    \/ Len(session_id.v) = 0
    \/ \E i \in 1..Len(session_id.v) : session_id.v[i] \in {"{", "}"}
    \/ \E i \in 1..Len(session_id.v) :
          /\ i + Len(CHECKOUT_SESSION_ID) - 1 <= Len(session_id.v)
          /\ SubSeq(session_id.v, i, i + Len(CHECKOUT_SESSION_ID) - 1)
                = CHECKOUT_SESSION_ID

\* C7: GET /thanks with a missing, empty or placeholder session_id makes no
\* provider call and returns the generic success page; with any other
\* session_id, a fetch that fails yields the generic success page too, and
\* never an error response.
C7_ThanksDegradesToGenericPage ==
    handler = "thanks" =>
        /\ response.status = 200
        /\ MissingOrPlaceholder(request.session_id)
              => (calls = <<>> /\ response = GenericPage)
        /\ (calls # <<>> /\ calls[1].outcome \in {"StripeError", "other error"})
              => response = GenericPage

C7_Witness ==
    /\ handler = "thanks"
    /\ request.session_id = Some(CHECKOUT_SESSION_ID)
    /\ calls = <<>>
    /\ response = GenericPage

\* C8: without a signing secret POST /webhook answers {received, warning}
\* for every payload and header and verifies nothing; with a secret,
\* {received} is answered only after the signature of the raw body was
\* verified, then for every event type, and a failed verification is
\* answered 400; in both revisions.
C8_WebhookVerifiesBeforeAck ==
    IsWebhook =>
        LET secret == env.STRIPE_WEBHOOK_SECRET
            genuine == /\ request.sig_header = Sign(secret, request.payload, TRUE)
                       /\ request.payload.json
        IN  IF secret = <<>>
            THEN /\ response = [status |-> 200, received |-> TRUE, warning |-> TRUE]
                 /\ calls = <<>>
            ELSE /\ Len(calls) = 1
                 /\ calls[1].op = "Webhook.construct_event"
                 /\ response.received => (genuine /\ calls[1].verified)
                 /\ ~genuine => response.status = 400
                 /\ genuine
                      => response = [status |-> 200, received |-> TRUE, warning |-> FALSE]

C8_Witness ==
    /\ handler = "stripe_webhook_v2"
    /\ env.STRIPE_WEBHOOK_SECRET # <<>>
    /\ request.payload.type = "checkout.session.completed"
    /\ request.sig_header = Sign(<<"whsec_other">>, request.payload, TRUE)
    /\ response.status = 400

\* C9: create_checkout never answers success without a hosted checkout URL:
\* a created session without a URL is answered 500, and a failed provider
\* call 400; in both revisions.
C9_NoSuccessWithoutUrl ==
    IsCreate =>
        /\ response.status = 200 => response.checkout_url.present
        /\ (calls # <<>> /\ calls[1].outcome = "session without url")
              => response.status = 500
        /\ (calls # <<>> /\ calls[1].outcome = "StripeError")
              => response.status = 400

\* C10: whatever the handler, a session-retrieve call is made only with an
\* id that passes the Session-ID Validator.
C10_RetrieveOnlyValidatedIds ==
    \A i \in 1..Len(calls) :
        calls[i].op = "checkout.Session.retrieve" => SESSION_ID_RE_match(calls[i].id)

====
